---- MODULE Spec2Model ----
(***************************************************************************)
(* State-machine model of the RAG tutorial programs of this repository:    *)
(*   "B"  src/pipeline.ts                 analyzeQuery -> retrieve ->      *)
(*        (= src/unnamed/part_001:318-451) generate, section filter passed *)
(*   "QA" src/unnamed/part_001:1-196      the same graph (graphQA), the    *)
(*                                        filter argument commented out    *)
(*   "C"  src/unnamed/part_001:453-692    queryOrRespond -> tools? ->      *)
(*                                        generate, no checkpointer        *)
(*   "D"  src/unnamed/part_002            the same graph compiled with the *)
(*                                        MemorySaver, streamed twice on   *)
(*                                        thread "abc123", then the        *)
(*                                        prebuilt react agent             *)
(*   "CLI" src/unnamed/part_001:198-316   the command-line program: the    *)
(*                                        query is argv[2], the clients    *)
(*                                        come from the getters of         *)
(*                                        src/unnamed/part_003, the graph  *)
(*                                        is the prebuilt react agent      *)
(*   "models" src/unnamed/part_003        the getters alone, called by a   *)
(*                                        client in any order              *)
(* One run of main() of one of these programs is one behaviour.            *)
(***************************************************************************)
EXTENDS Integers, Sequences, FiniteSets, TLC

\* ---------------------------------------------------------------- bounds
\* Largest number of chunks the splitter returns.
MaxChunks == 5
\* Largest number of tool-call requests in one model response.
MaxCalls == 2
\* Largest number of tool rounds the model asks of the react agent.
MaxAgentRounds == 1
\* Largest number of command-line arguments.
MaxArgs == 2
\* Largest number of getter calls a client of part_003 makes.
MaxGetterCalls == 5
\* Longest message list handed to generate as a function of its input.
MaxLen == 4

\* ------------------------------------------------------------- constants
\* k of vectorStore.similaritySearch(query, 2, ...)
TopK == 2

Variants == {"B", "QA", "C", "D"}
\* The texts a command-line argument may be.
Queries == {"q1", "q2"}
Sections == {"beginning", "middle", "end"}
\* The thread ids the MemorySaver may be asked for; main() only uses "abc123".
ThreadIds == {"abc123", "other"}

VARIABLES
  variant,     \* which program runs
  pc,          \* position of main(): load, split, label, add, build, ready,
               \* running, done, crashed
  allSplits,   \* the chunks returned by splitter.splitDocuments
  index,       \* the documents held by the MemoryVectorStore
  built,       \* the graphs compiled so far
  inv,         \* number of graph.stream/agent.stream calls started
  node,        \* the node the running invocation is at
  state,       \* StateAnnotation.State of the query-analysis graph
  messages,    \* MessagesAnnotation.State.messages of the running invocation
  checkpoint,  \* MemorySaver: thread id -> persisted messages
  nextId,      \* next fresh message id
  rounds,      \* tool rounds the react agent has gone through
  failed,      \* history: the step whose external call threw, "none" if none
  ran,         \* history: nodes started in the running invocation, in order
  prompts,     \* history: model calls of the running invocation, in order
  toolCalls,   \* the tool calls of the running tools step: "pending" while the
               \* call is in flight, then "settled"
  yielded,     \* history: items the stream of the running invocation yielded
  args,        \* process.argv.slice(2) of the command-line program
  stderr,      \* lines written with console.error
  exitCode,    \* <<c>> once process.exit(c) was called, <<>> before
  _llm,        \* the lazily built clients of src/unnamed/part_003
  _embeddings,
  _vectorStore,
  constructed, \* history: the clients constructed, in order
  returned     \* history: the getter calls and what they returned, in order

\* The process and module state that only the command-line program and the
\* getters of part_003 touch.
extVars == <<args, stderr, exitCode, _llm, _embeddings, _vectorStore,
             constructed, returned>>

vars == <<variant, pc, allSplits, index, built, inv, node, state, messages,
          checkpoint, nextId, rounds, failed, ran, prompts, toolCalls, yielded,
          extVars>>

\* ------------------------------------------------------------ ingestion

Min(a, b) == IF a < b THEN a ELSE b

\* What splitter.splitDocuments returns: chunk i (0-based) with no section yet.
Chunk(i) == [id |-> i, section |-> "none"]

\* Mutant of SectionOf: the comparisons include the boundary index.
SectionOfInclusive(i, totalDocuments) ==
  LET third == totalDocuments \div 3
  IN IF i <= third THEN "beginning"
     ELSE IF i <= third * 2 THEN "middle"
     ELSE "end"

\* The body of allSplits.forEach((document, i) => ...): the section of the
\* chunk at 0-based index i among totalDocuments chunks.
SectionOf(i, totalDocuments) ==
  LET third == totalDocuments \div 3
  IN IF i < third THEN "beginning"
     ELSE IF i < third * 2 THEN "middle"
     ELSE "end"

\* Mutant of load: a failed fetch is swallowed and main() goes on with no
\* documents.
loadSwallow ==
  /\ pc = "load"
  /\ \E ok \in BOOLEAN :
       /\ pc' = "split"
       /\ failed' = IF ok THEN failed ELSE "load"
  /\ UNCHANGED <<variant, allSplits, index, built, inv, node, state, messages,
                 checkpoint, nextId, rounds, ran, prompts>>
  /\ UNCHANGED <<toolCalls, yielded, extVars>>

\* const docs = await cheerioLoader.load(): the fetch either returns or throws.
load ==
  /\ pc = "load"
  /\ \E ok \in BOOLEAN :
       /\ pc' = IF ok THEN "split" ELSE "crashed"
       /\ failed' = IF ok THEN failed ELSE "load"
  /\ UNCHANGED <<variant, allSplits, index, built, inv, node, state, messages,
                 checkpoint, nextId, rounds, ran, prompts>>
  /\ UNCHANGED <<toolCalls, yielded, extVars>>

\* const allSplits = await splitter.splitDocuments(docs)
splitDocuments ==
  /\ pc = "split"
  /\ \E n \in 0..MaxChunks : allSplits' = [i \in 1..n |-> Chunk(i - 1)]
  /\ pc' = "label"
  /\ UNCHANGED <<variant, index, built, inv, node, state, messages,
                 checkpoint, nextId, rounds, failed, ran, prompts>>
  /\ UNCHANGED <<toolCalls, yielded, extVars>>

\* allSplits.forEach(...): a synchronous loop, one step of main().
labelSections ==
  /\ pc = "label"
  /\ allSplits' = [i \in 1..Len(allSplits) |->
                     [allSplits[i] EXCEPT
                        !.section = SectionOf(i - 1, Len(allSplits))]]
  /\ pc' = "add"
  /\ UNCHANGED <<variant, index, built, inv, node, state, messages,
                 checkpoint, nextId, rounds, failed, ran, prompts>>
  /\ UNCHANGED <<toolCalls, yielded, extVars>>

\* await vectorStore.addDocuments(allSplits): embeds every chunk, then stores
\* them all; a failed embedding call throws before anything is stored.
addDocuments ==
  /\ pc = "add"
  /\ \E ok \in BOOLEAN :
       IF ok THEN index' = index \o allSplits /\ pc' = "build" /\ failed' = failed
             ELSE index' = index /\ pc' = "crashed" /\ failed' = "addDocuments"
  /\ UNCHANGED <<variant, allSplits, built, inv, node, state, messages,
                 checkpoint, nextId, rounds, ran, prompts>>
  /\ UNCHANGED <<toolCalls, yielded, extVars>>

\* ------------------------------------------------------------ the graphs

\* The graph.stream / agent.stream calls main() makes, in program order.
Streams(v) ==
  CASE v = "B"  -> <<"graphQA">>
    [] v = "QA" -> <<"graphQA">>
    [] v = "C"  -> <<"graph">>
    [] v = "D"  -> <<"graphWithMemory", "graphWithMemory", "agent">>
    [] v = "CLI" -> <<"agent">>

\* The graph the running (or last) invocation streams.
CurrentGraph == IF inv = 0 THEN "none" ELSE Streams(variant)[inv]

MessageGraphs == {"graph", "graphWithMemory", "agent"}

\* threadConfig.configurable.thread_id
thread_id == "abc123"

\* Mutant of HasCheckpointer: every graph, the react agent included, is
\* compiled with the checkpointer and run on the thread.
HasCheckpointerAll(g) == TRUE

\* Whether the graph was compiled with { checkpointer }.
HasCheckpointer(g) == g = "graphWithMemory"

\* --- messages.  id: the message's unique id; type: _getType(); tool_calls:
\* the length of its tool_calls list; status: a ToolMessage's status;
\* content: its text, as a sequence of tokens (a tool result's text is the
\* token of its own id; joining texts concatenates them); inv: the stream call
\* that created it (bookkeeping).
HumanMessage(id, k) ==
  [id |-> id, type |-> "human", tool_calls |-> 0, status |-> "none",
   content |-> <<>>, inv |-> k]

\* Mutant of AIMessage: the response comes back under the id of the thread's
\* first message, so the reducer overwrites that entry.
AIMessageStaleId(id, k, calls) ==
  [id |-> 1, type |-> "ai", tool_calls |-> calls, status |-> "none",
   content |-> <<>>, inv |-> k]

AIMessage(id, k, calls) ==
  [id |-> id, type |-> "ai", tool_calls |-> calls, status |-> "none",
   content |-> <<>>, inv |-> k]

ToolMessage(id, k, err) ==
  [id |-> id, type |-> "tool", tool_calls |-> 0,
   status |-> IF err THEN "error" ELSE "success",
   content |-> <<id>>, inv |-> k]

SystemMessage(text, k) ==
  [id |-> 0, type |-> "system", tool_calls |-> 0, status |-> "none",
   content |-> text, inv |-> k]

\* The reducer of MessagesAnnotation: a message whose id is already in the
\* list replaces that entry, any other message is appended.
RECURSIVE messagesStateReducer(_, _)
messagesStateReducer(left, right) ==
  IF right = <<>> THEN left
  ELSE LET m == Head(right)
           merged == IF \E i \in DOMAIN left : left[i].id = m.id
                     THEN [i \in DOMAIN left |->
                             IF left[i].id = m.id THEN m ELSE left[i]]
                     ELSE Append(left, m)
       IN messagesStateReducer(merged, Tail(right))

\* Mutant of LoadThread: the persisted messages are never read back.
LoadThreadNone(g) == <<>>

\* What an invocation starts from: the thread's persisted messages when the
\* graph has a checkpointer, nothing otherwise.
LoadThread(g) == IF HasCheckpointer(g) THEN checkpoint[thread_id] ELSE <<>>

\* The checkpointer after a step that left `msgs` in the state.
SaveThread(g, msgs) ==
  IF HasCheckpointer(g) THEN [checkpoint EXCEPT ![thread_id] = msgs]
  ELSE checkpoint

\* Mutant of toolsCondition: routes to the tools node whatever the response.
toolsConditionAlways(msgs) == "tools"

\* toolsCondition: "tools" when the last message is an AI message carrying
\* tool calls, "__end__" otherwise.
toolsCondition(msgs) ==
  IF msgs # <<>> /\ msgs[Len(msgs)].type = "ai"
     /\ msgs[Len(msgs)].tool_calls > 0
  THEN "tools" ELSE "__end__"

\* Mutant of NextNode: generate is wired back to queryOrRespond and generateQA
\* back to analyzeQuery, so that a finished pass starts over.
NextNodeAgain(g, n, msgs) ==
  CASE g = "graphQA" ->
         (CASE n = "__start__"    -> "analyzeQuery"
            [] n = "analyzeQuery" -> "retrieveQA"
            [] n = "retrieveQA"   -> "generateQA"
            [] n = "generateQA"   -> "analyzeQuery")
    [] g \in {"graph", "graphWithMemory"} ->
         (CASE n = "__start__"      -> "queryOrRespond"
            [] n = "queryOrRespond" -> toolsCondition(msgs)
            [] n = "tools"          -> "generate"
            [] n = "generate"       -> "queryOrRespond")
    [] g = "agent" ->
         (CASE n = "__start__" -> "agent"
            [] n = "agent"     -> toolsCondition(msgs)
            [] n = "tools"     -> "agent")

\* Mutant of NextNode: the conditional edge's "tools" branch is wired to
\* generate, so that the tools node is skipped.
NextNodeSkipTools(g, n, msgs) ==
  CASE g = "graphQA" ->
         (CASE n = "__start__"    -> "analyzeQuery"
            [] n = "analyzeQuery" -> "retrieveQA"
            [] n = "retrieveQA"   -> "generateQA"
            [] n = "generateQA"   -> "__end__")
    [] g \in {"graph", "graphWithMemory"} ->
         (CASE n = "__start__"      -> "queryOrRespond"
            [] n = "queryOrRespond" ->
                 IF toolsCondition(msgs) = "tools" THEN "generate" ELSE "__end__"
            [] n = "tools"          -> "generate"
            [] n = "generate"       -> "__end__")
    [] g = "agent" ->
         (CASE n = "__start__" -> "agent"
            [] n = "agent"     -> toolsCondition(msgs)
            [] n = "tools"     -> "agent")

\* Mutant of NextNode: the react agent ends after its tools node instead of
\* calling the model again.
NextNodeToolsEnd(g, n, msgs) ==
  CASE g = "graphQA" ->
         (CASE n = "__start__"    -> "analyzeQuery"
            [] n = "analyzeQuery" -> "retrieveQA"
            [] n = "retrieveQA"   -> "generateQA"
            [] n = "generateQA"   -> "__end__")
    [] g \in {"graph", "graphWithMemory"} ->
         (CASE n = "__start__"      -> "queryOrRespond"
            [] n = "queryOrRespond" -> toolsCondition(msgs)
            [] n = "tools"          -> "generate"
            [] n = "generate"       -> "__end__")
    [] g = "agent" ->
         (CASE n = "__start__" -> "agent"
            [] n = "agent"     -> toolsCondition(msgs)
            [] n = "tools"     -> "__end__")

\* The edges of the compiled graphs: the node that follows node n of graph g
\* when the state holds msgs.
NextNode(g, n, msgs) ==
  CASE g = "graphQA" ->
         (CASE n = "__start__"    -> "analyzeQuery"
            [] n = "analyzeQuery" -> "retrieveQA"
            [] n = "retrieveQA"   -> "generateQA"
            [] n = "generateQA"   -> "__end__")
    [] g \in {"graph", "graphWithMemory"} ->
         (CASE n = "__start__"      -> "queryOrRespond"
            [] n = "queryOrRespond" -> toolsCondition(msgs)
            [] n = "tools"          -> "generate"
            [] n = "generate"       -> "__end__")
    [] g = "agent" ->
         (CASE n = "__start__" -> "agent"
            [] n = "agent"     -> toolsCondition(msgs)
            [] n = "tools"     -> "agent")

\* Mutant of StreamMode: every stream call asks for "updates".
StreamModeUpdates(g) == "updates"

\* The streamMode of the stream call on graph g.
StreamMode(g) == IF g = "graphQA" THEN "updates" ELSE "values"

\* The id of the last message of a list, 0 for the empty list.
LastId(msgs) == IF msgs = <<>> THEN 0 ELSE msgs[Len(msgs)].id

\* What the stream yields when step n has completed: with "updates" the
\* step's name and its update, with "values" the whole state after the step.
\* The loop of main() prints the update, or the last message of the state:
\* an item is kept as the step's name and the id of that last message.
StreamItem(g, n, msgs) ==
  [node |-> n,
   last |-> IF StreamMode(g) = "values" THEN LastId(msgs) ELSE 0]

\* What the stream yields before any step has run: with "values" the state
\* that holds the input, with "updates" nothing.
FirstItems(g, msgs) ==
  IF StreamMode(g) = "values" THEN <<StreamItem(g, "__input__", msgs)>>
  ELSE <<>>

\* The content of the user message main() sends in stream call k: the first
\* command-line argument in the command-line program, a fixed text otherwise.
UserContent(v) == IF v = "CLI" THEN <<args[1]>> ELSE <<>>

\* { role: "user", content }: coerced to a HumanMessage by the reducer.
UserMessage(id, k, content) ==
  [HumanMessage(id, k) EXCEPT !.content = content]

\* The initial WorkflowState of the query-analysis graph.
EmptyState ==
  [question |-> "", search |-> [query |-> "", section |-> "none"],
   context |-> <<>>, answer |-> ""]

\* graphBuilder...compile() / createReactAgent(...): the graphs of the program
\* exist once ingestion is over.
compile ==
  /\ pc = "build"
  /\ built' = {Streams(variant)[i] : i \in DOMAIN Streams(variant)}
  /\ pc' = "ready"
  /\ UNCHANGED <<variant, allSplits, index, inv, node, state, messages,
                 checkpoint, nextId, rounds, failed, ran, prompts>>
  /\ UNCHANGED <<toolCalls, yielded, extVars>>

\* await graph.stream(inputs, config): the invocation loads the thread (if
\* any), writes the input into the state and saves the first checkpoint.
stream ==
  /\ pc = "ready"
  /\ inv < Len(Streams(variant))
  /\ LET k == inv + 1
         g == Streams(variant)[k]
     IN /\ inv' = k
        /\ IF g \in MessageGraphs
           THEN /\ messages' = messagesStateReducer(
                                  LoadThread(g),
                                  <<UserMessage(nextId, k, UserContent(variant))>>)
                /\ nextId' = nextId + 1
                /\ state' = state
           ELSE /\ state' = [EmptyState EXCEPT !.question = "question"]
                /\ messages' = messages
                /\ nextId' = nextId
        /\ checkpoint' = SaveThread(g, messages')
        /\ yielded' = FirstItems(g, messages')
  /\ node' = "__start__"
  /\ pc' = "running"
  /\ rounds' = 0
  /\ ran' = <<>>
  /\ prompts' = <<>>
  /\ UNCHANGED <<variant, allSplits, index, built, failed, toolCalls, extVars>>

\* The edge out of __start__.
start ==
  /\ pc = "running"
  /\ node = "__start__"
  /\ node' = NextNode(CurrentGraph, "__start__", messages)
  /\ UNCHANGED <<variant, pc, allSplits, index, built, inv, state, messages,
                 checkpoint, nextId, rounds, failed, ran, prompts>>
  /\ UNCHANGED <<toolCalls, yielded, extVars>>

\* The stream is exhausted: main() goes on to its next stream call, or returns.
finish ==
  /\ pc = "running"
  /\ node = "__end__"
  /\ pc' = IF inv < Len(Streams(variant)) THEN "ready" ELSE "done"
  /\ UNCHANGED <<variant, allSplits, index, built, inv, node, state, messages,
                 checkpoint, nextId, rounds, failed, ran, prompts>>
  /\ UNCHANGED <<toolCalls, yielded, extVars>>

\* --------------------------------------- the query-analysis graph (B, QA)

\* Mutant of filter: every document is accepted.
filterAny(doc, search) == TRUE

\* const filter = (doc) => doc.metadata.section === state.search.section
filter(doc, search) == doc.section = search.section

\* Whether retrieve hands `filter` to similaritySearch: pipeline.ts does,
\* part_001:119-123 has the argument commented out.
PassesFilter(v) == v = "B"

\* The positions of the store's documents that a search may return.
Candidates(v, store, search) ==
  {i \in DOMAIN store : PassesFilter(v) => filter(store[i], search)}

\* The one-to-one sequences of length m over S.
Injections(m, S) ==
  {f \in [1..m -> S] : \A i, j \in 1..m : i # j => f[i] # f[j]}

\* MemoryVectorStore.similaritySearch(query, k, filter): the k documents most
\* similar to the query among those the filter accepts, all of them when fewer
\* than k are accepted. The ranking is the embedding provider's: any order.
similaritySearch(store, k, cands) ==
  {[i \in 1..Min(k, Cardinality(cands)) |-> store[f[i]]] :
     f \in Injections(Min(k, Cardinality(cands)), cands)}

\* Mutant of Crash: the failure is caught and the graph falls through to the
\* next node.
CrashContinue(n) ==
  /\ failed' = n
  /\ ran' = Append(ran, n)
  /\ node' = NextNode(CurrentGraph, n, messages)
  /\ UNCHANGED <<variant, pc, allSplits, index, built, inv, state, messages,
                 checkpoint, nextId, rounds, prompts>>
  /\ UNCHANGED <<toolCalls, yielded, extVars>>

\* A failed external call rejects the node's promise: graph.stream throws,
\* main() has no catch, the process ends.
Crash(n) ==
  /\ pc' = "crashed"
  /\ failed' = n
  /\ ran' = Append(ran, n)
  /\ UNCHANGED <<variant, allSplits, index, built, inv, node, state, messages,
                 checkpoint, nextId, rounds, prompts>>
  /\ UNCHANGED <<toolCalls, yielded, extVars>>

\* The channels of StateAnnotation.
Fields == {"question", "search", "context", "answer"}

\* Mutant of Reads: every node reads the whole state.
ReadsAll(n) == Fields

\* The fields of the state the function of node n dereferences.
Reads(n) ==
  CASE n = "analyzeQuery" -> {"question"}
    [] n = "retrieveQA"   -> {"search"}
    [] n = "generateQA"   -> {"question", "context"}

\* The fields of the update the function of node n returns.
Writes(n) ==
  CASE n = "analyzeQuery" -> {"search"}
    [] n = "retrieveQA"   -> {"context"}
    [] n = "generateQA"   -> {"answer"}

\* analyzeQuery: structuredLlm.invoke(state.question) returns a SearchSpec or
\* throws (provider failure, output that does not parse against searchSchema).
analyzeQuery ==
  /\ pc = "running"
  /\ node = "analyzeQuery"
  /\ \E result \in Sections \cup {"throw"} :
       IF result = "throw" THEN Crash("analyzeQuery")
       ELSE /\ state' = [state EXCEPT
                           !.search = [query |-> "query", section |-> result]]
            /\ prompts' = Append(prompts,
                                 [node |-> "analyzeQuery", msgs |-> <<>>])
            /\ node' = NextNode(CurrentGraph, "analyzeQuery", messages)
            /\ ran' = Append(ran, "analyzeQuery")
            /\ yielded' = Append(yielded,
                                 StreamItem(CurrentGraph, "analyzeQuery", messages))
            /\ UNCHANGED <<toolCalls, extVars>>
            /\ UNCHANGED <<variant, pc, allSplits, index, built, inv, messages,
                           checkpoint, nextId, rounds, failed>>

\* retrieve / retrieveQA: the similarity search returns or throws (the query
\* embedding failed).
retrieveQA ==
  /\ pc = "running"
  /\ node = "retrieveQA"
  /\ \E ok \in BOOLEAN :
       IF ~ok THEN Crash("retrieveQA")
       ELSE /\ \E retrievedDocs \in
                    similaritySearch(index, TopK,
                                     Candidates(variant, index, state.search)) :
                  state' = [state EXCEPT !.context = retrievedDocs]
            /\ node' = NextNode(CurrentGraph, "retrieveQA", messages)
            /\ ran' = Append(ran, "retrieveQA")
            /\ yielded' = Append(yielded,
                                 StreamItem(CurrentGraph, "retrieveQA", messages))
            /\ UNCHANGED <<toolCalls, extVars>>
            /\ UNCHANGED <<variant, pc, allSplits, index, built, inv, messages,
                           checkpoint, nextId, rounds, failed, prompts>>

\* generate / generateQA: llm.invoke(messages) returns the answer or throws.
generateQA ==
  /\ pc = "running"
  /\ node = "generateQA"
  /\ \E ok \in BOOLEAN :
       IF ~ok THEN Crash("generateQA")
       ELSE /\ state' = [state EXCEPT !.answer = "answer"]
            /\ prompts' = Append(prompts,
                                 [node |-> "generateQA", msgs |-> <<>>])
            /\ node' = NextNode(CurrentGraph, "generateQA", messages)
            /\ ran' = Append(ran, "generateQA")
            /\ yielded' = Append(yielded,
                                 StreamItem(CurrentGraph, "generateQA", messages))
            /\ UNCHANGED <<toolCalls, extVars>>
            /\ UNCHANGED <<variant, pc, allSplits, index, built, inv, messages,
                           checkpoint, nextId, rounds, failed>>

\* ------------------------------------------ the tool-calling graph (C, D)

\* A node of a message graph returned { messages: new }: the reducer merges
\* them into the state, the edge out of node n is followed and, with a
\* checkpointer, the step's state is persisted.
Step(n, new) ==
  /\ messages' = messagesStateReducer(messages, new)
  /\ nextId' = nextId + Len(new)
  /\ node' = NextNode(CurrentGraph, n, messages')
  /\ checkpoint' = SaveThread(CurrentGraph, messages')
  /\ ran' = Append(ran, n)
  /\ yielded' = Append(yielded, StreamItem(CurrentGraph, n, messages'))
  /\ toolCalls' = <<>>
  /\ UNCHANGED <<variant, pc, allSplits, index, built, inv, state, failed,
                 extVars>>

\* queryOrRespond: llm.bindTools([retrieve]).invoke(state.messages) returns an
\* AI message with zero or more tool calls, or throws.
queryOrRespond ==
  /\ pc = "running"
  /\ node = "queryOrRespond"
  /\ \E calls \in 0..MaxCalls, ok \in BOOLEAN :
       IF ~ok THEN Crash("queryOrRespond")
       ELSE /\ Step("queryOrRespond", <<AIMessage(nextId, inv, calls)>>)
            /\ prompts' = Append(prompts,
                                 [node |-> "queryOrRespond", msgs |-> messages])
            /\ rounds' = rounds

\* Mutant of ToolResults: only the first tool call gets a result.
ToolResultsFirst(msgs, first, k, errs) ==
  IF msgs[Len(msgs)].tool_calls = 0 THEN <<>>
  ELSE <<ToolMessage(first, k, errs[1])>>

\* The tool results of the ToolNode for the calls of the last message: one
\* ToolMessage per call, in call order. A call whose tool throws (the
\* similarity search failed) yields a ToolMessage of status "error" instead of
\* failing the step. The text of a result (the serialized documents of
\* similaritySearch(query, 2), or the error) is a token of its own.
ToolResults(msgs, first, k, errs) ==
  [i \in 1..msgs[Len(msgs)].tool_calls |-> ToolMessage(first + i - 1, k, errs[i])]

\* Mutant of InvokeAll: no search is started, every call has its result at
\* once.
InvokeNone(calls) == [i \in 1..calls |-> "settled"]

\* Promise.all(message.tool_calls.map(async (call) => tool.invoke(call))) of
\* the ToolNode: every callback runs up to its first await, the similarity
\* search of the retrieve tool, before any of them resumes, so the searches
\* of all the calls are in flight together.
InvokeAll(calls) == [i \in 1..calls |-> "pending"]

\* The calls of the running tools step that are in flight.
InFlight == {i \in DOMAIN toolCalls : toolCalls[i] = "pending"}

\* tools, up to its await: new ToolNode([retrieve]) starts the tool calls of
\* the last message.
toolsInvoke ==
  /\ pc = "running"
  /\ node = "tools"
  /\ toolCalls = <<>>
  /\ messages[Len(messages)].tool_calls > 0
  /\ toolCalls' = InvokeAll(messages[Len(messages)].tool_calls)
  /\ UNCHANGED <<variant, pc, allSplits, index, built, inv, node, state,
                 messages, checkpoint, nextId, rounds, failed, ran, prompts,
                 yielded, extVars>>

\* tools, from its await on: the similarity search of one call in flight
\* returns or throws, which settles the call; when no call is left in flight
\* the node returns the tool messages, one per call, a call whose search
\* threw having an error result, and the step completes.
tools ==
  /\ pc = "running"
  /\ node = "tools"
  /\ \E i \in InFlight :
       IF InFlight # {i}
       THEN /\ toolCalls' = [toolCalls EXCEPT ![i] = "settled"]
            /\ UNCHANGED <<variant, pc, allSplits, index, built, inv, node,
                           state, messages, checkpoint, nextId, rounds,
                           failed, ran, prompts, yielded, extVars>>
       ELSE /\ \E errs \in [DOMAIN toolCalls -> BOOLEAN] :
                 Step("tools", ToolResults(messages, nextId, inv, errs))
            /\ rounds' = IF CurrentGraph = "agent" THEN rounds + 1 ELSE rounds
            /\ prompts' = prompts

\* Mutant of recentToolMessages: the scan does not stop at the first message
\* that is no tool message, every tool message of the list is taken.
recentToolMessagesAll(msgs) == SelectSeq(msgs, LAMBDA m : m.type = "tool")

\* The first half of generate: the trailing tool messages, in list order.
RECURSIVE recentToolMessages(_)
recentToolMessages(msgs) ==
  IF msgs = <<>> \/ msgs[Len(msgs)].type # "tool" THEN <<>>
  ELSE Append(recentToolMessages(SubSeq(msgs, 1, Len(msgs) - 1)),
              msgs[Len(msgs)])

\* toolMessages.map((doc) => doc.content).join("\n")
RECURSIVE docsContent(_)
docsContent(toolMessages) ==
  IF toolMessages = <<>> THEN <<>>
  ELSE Head(toolMessages).content \o docsContent(Tail(toolMessages))

\* Mutant of IsConversationMessage: every AI message is kept.
IsConversationMessageAnyAI(message) == message.type \in {"human", "system", "ai"}

\* The filter of conversationMessages.
IsConversationMessage(message) ==
  \/ message.type = "human"
  \/ message.type = "system"
  \/ (message.type = "ai" /\ message.tool_calls = 0)

conversationMessages(msgs) == SelectSeq(msgs, IsConversationMessage)

\* const prompt = [new SystemMessage(systemMessageContent), ...conversationMessages]
GeneratePrompt(msgs, k) ==
  <<SystemMessage(docsContent(recentToolMessages(msgs)), k)>>
    \o conversationMessages(msgs)

\* generate: llm.invoke(prompt) returns an AI message (no tools are bound, so
\* it carries no tool call) or throws.
generate ==
  /\ pc = "running"
  /\ node = "generate"
  /\ \E ok \in BOOLEAN :
       IF ~ok THEN Crash("generate")
       ELSE /\ Step("generate", <<AIMessage(nextId, inv, 0)>>)
            /\ prompts' = Append(prompts,
                                 [node |-> "generate",
                                  msgs |-> GeneratePrompt(messages, inv)])
            /\ rounds' = rounds

\* The model node of createReactAgent({ llm, tools: [retrieve] }): the model,
\* bound to the tools, is called on the whole message list.
agent ==
  /\ pc = "running"
  /\ node = "agent"
  /\ \E calls \in 0..(IF rounds < MaxAgentRounds THEN MaxCalls ELSE 0),
        ok \in BOOLEAN :
       IF ~ok THEN Crash("agent")
       ELSE /\ Step("agent", <<AIMessage(nextId, inv, calls)>>)
            /\ prompts' = Append(prompts,
                                 [node |-> "agent", msgs |-> messages])
            /\ rounds' = rounds

\* ------------------- the clients (part_003) and the command-line program

\* The value of a module variable that was declared and never assigned.
undefined == [class |-> "undefined", id |-> 0, embeddings |-> 0]

\* new ChatAnthropic(...), new CohereEmbeddings(...), new MemoryVectorStore(e):
\* the id tells instances apart; a vector store keeps the id of the
\* embeddings client it was constructed with.
New(class, id, embeddings) ==
  [class |-> class, id |-> id, embeddings |-> embeddings]

\* Mutant of Missing: the getter constructs a client at every call.
MissingAlways(client) == TRUE

\* if (!_x): whether the getter has to construct the client.
Missing(client) == client = undefined

\* A client calls the getters in any order, or main() is at the call.
CallAllowed(at) ==
  \/ pc = at
  \/ pc = "client" /\ Len(returned) < MaxGetterCalls

\* getLlm()
getLlm ==
  /\ CallAllowed("getLlm")
  /\ LET made == Missing(_llm)
         value == IF made THEN New("ChatAnthropic", Len(constructed) + 1, 0)
                  ELSE _llm
     IN /\ _llm' = value
        /\ constructed' = IF made THEN Append(constructed, value) ELSE constructed
        /\ returned' = Append(returned, [getter |-> "getLlm", value |-> value])
  /\ pc' = IF pc = "client" THEN "client" ELSE "getVectorStore"
  /\ UNCHANGED <<variant, allSplits, index, built, inv, node, state, messages,
                 checkpoint, nextId, rounds, failed, ran, prompts, toolCalls,
                 yielded, args, stderr, exitCode, _embeddings, _vectorStore>>

\* getEmbeddings(), called by a client.
getEmbeddings ==
  /\ CallAllowed("getEmbeddings")
  /\ LET made == Missing(_embeddings)
         value == IF made THEN New("CohereEmbeddings", Len(constructed) + 1, 0)
                  ELSE _embeddings
     IN /\ _embeddings' = value
        /\ constructed' = IF made THEN Append(constructed, value) ELSE constructed
        /\ returned' = Append(returned,
                              [getter |-> "getEmbeddings", value |-> value])
  /\ UNCHANGED <<variant, pc, allSplits, index, built, inv, node, state,
                 messages, checkpoint, nextId, rounds, failed, ran, prompts,
                 toolCalls, yielded, args, stderr, exitCode, _llm, _vectorStore>>

\* getVectorStore(): getEmbeddings() is called only when the store has to be
\* constructed, and the store is constructed with what it returns.
getVectorStore ==
  /\ CallAllowed("getVectorStore")
  /\ LET made == Missing(_vectorStore)
         madeEmbeddings == made /\ Missing(_embeddings)
         e == IF madeEmbeddings
              THEN New("CohereEmbeddings", Len(constructed) + 1, 0)
              ELSE _embeddings
         c == IF madeEmbeddings THEN Append(constructed, e) ELSE constructed
         r == IF made
              THEN Append(returned, [getter |-> "getEmbeddings", value |-> e])
              ELSE returned
         value == IF made THEN New("MemoryVectorStore", Len(c) + 1, e.id)
                  ELSE _vectorStore
     IN /\ _embeddings' = IF made THEN e ELSE _embeddings
        /\ _vectorStore' = value
        /\ constructed' = IF made THEN Append(c, value) ELSE c
        /\ returned' = Append(r, [getter |-> "getVectorStore", value |-> value])
  /\ pc' = IF pc = "client" THEN "client" ELSE "load"
  /\ UNCHANGED <<variant, allSplits, index, built, inv, node, state, messages,
                 checkpoint, nextId, rounds, failed, ran, prompts, toolCalls,
                 yielded, args, stderr, exitCode, _llm>>

\* The two console.error lines of main().
Usage ==
  <<"Error: Please provide a query as a command line argument.",
    "Usage: npx tsx pipeline.ts 'Your query here'">>

\* Mutant of parseArgs: the usage text is printed and main() goes on.
parseArgsNoExit ==
  /\ pc = "args"
  /\ stderr' = IF Len(args) = 0 THEN stderr \o Usage ELSE stderr
  /\ pc' = "getLlm"
  /\ UNCHANGED <<variant, allSplits, index, built, inv, node, state, messages,
                 checkpoint, nextId, rounds, failed, ran, prompts, toolCalls,
                 yielded, args, exitCode, _llm, _embeddings, _vectorStore,
                 constructed, returned>>

\* The head of main(): without an argument the usage text goes to the error
\* stream and process.exit(1) ends the process; otherwise args[0] is the query.
parseArgs ==
  /\ pc = "args"
  /\ IF Len(args) = 0
     THEN /\ stderr' = stderr \o Usage
          /\ exitCode' = <<1>>
          /\ pc' = "exited"
     ELSE /\ pc' = "getLlm"
          /\ UNCHANGED <<stderr, exitCode>>
  /\ UNCHANGED <<variant, allSplits, index, built, inv, node, state, messages,
                 checkpoint, nextId, rounds, failed, ran, prompts, toolCalls,
                 yielded, args, _llm, _embeddings, _vectorStore, constructed,
                 returned>>

\* ------------------------------------------------------- specifications

\* What every program starts from: nothing ingested, no client constructed,
\* nothing written, nothing persisted.
Unstarted ==
  /\ allSplits = <<>>
  /\ index = <<>>
  /\ state = EmptyState
  /\ checkpoint = [t \in ThreadIds |-> <<>>]
  /\ rounds = 0
  /\ failed = "none"
  /\ ran = <<>>
  /\ prompts = <<>>
  /\ toolCalls = <<>>
  /\ yielded = <<>>
  /\ stderr = <<>>
  /\ exitCode = <<>>
  /\ _llm = undefined
  /\ _embeddings = undefined
  /\ _vectorStore = undefined
  /\ constructed = <<>>
  /\ returned = <<>>

\* The programs that take their clients from src/models.ts and read no
\* command-line argument.
Init ==
  /\ variant \in Variants
  /\ pc = "load"
  /\ built = {}
  /\ inv = 0
  /\ node = "none"
  /\ messages = <<>>
  /\ nextId = 1
  /\ args = <<>>
  /\ Unstarted

Next ==
  \/ load
  \/ splitDocuments
  \/ labelSections
  \/ addDocuments
  \/ compile
  \/ stream
  \/ start
  \/ analyzeQuery
  \/ retrieveQA
  \/ generateQA
  \/ queryOrRespond
  \/ toolsInvoke
  \/ tools
  \/ generate
  \/ agent
  \/ finish

Spec == Init /\ [][Next]_vars

\* The specification of the liveness claims about the explicit graphs. main()
\* is one chain of awaits on the event loop: whenever a step is possible, one
\* is eventually taken. The model of the react agent, whose run follows the
\* explicit graphs' and takes no part in them, answers here without tool calls.
agentQuiet == agent /\ node' # "tools"

FairNext ==
  \/ load
  \/ splitDocuments
  \/ labelSections
  \/ addDocuments
  \/ compile
  \/ stream
  \/ start
  \/ analyzeQuery
  \/ retrieveQA
  \/ generateQA
  \/ queryOrRespond
  \/ toolsInvoke
  \/ tools
  \/ generate
  \/ agentQuiet
  \/ finish

FairSpec == Init /\ [][FairNext]_vars /\ WF_vars(FairNext)

\* --- the command-line program

\* The argument lists the program may be started with.
ArgLists == UNION {[1..n -> Queries] : n \in 0..MaxArgs}

CliInit ==
  /\ variant = "CLI"
  /\ pc = "args"
  /\ built = {}
  /\ inv = 0
  /\ node = "none"
  /\ messages = <<>>
  /\ nextId = 1
  /\ args \in ArgLists
  /\ Unstarted

CliNext ==
  \/ parseArgs
  \/ getLlm
  \/ getVectorStore
  \/ load
  \/ splitDocuments
  \/ labelSections
  \/ addDocuments
  \/ compile
  \/ stream
  \/ start
  \/ agent
  \/ toolsInvoke
  \/ tools
  \/ finish

\* main() is one chain of awaits on the event loop: whenever a step is
\* possible, one is eventually taken.
CliSpec == CliInit /\ [][CliNext]_vars /\ WF_vars(CliNext)

\* The command-line program started with one query: the react agent's run.
AgentInit == CliInit /\ args = <<"q1">>

AgentSpec == AgentInit /\ [][CliNext]_vars /\ WF_vars(CliNext)

\* --- the getters of part_003, called by any client in any order

GetterInit ==
  /\ variant = "models"
  /\ pc = "client"
  /\ built = {}
  /\ inv = 0
  /\ node = "none"
  /\ messages = <<>>
  /\ nextId = 1
  /\ args = <<>>
  /\ Unstarted

GetterNext ==
  \/ getLlm
  \/ getEmbeddings
  \/ getVectorStore

GetterSpec == GetterInit /\ [][GetterNext]_vars

\* --- generate as a function of the message list it is handed

\* The kinds of message a list may hold: an AI message without tool calls
\* ("ai"), one with a tool call ("aiCalls").
Kinds == {"human", "system", "ai", "aiCalls", "tool"}

\* The message of the given kind at position i of a list; its id is i.
MessageOf(kind, i) ==
  CASE kind = "human"   -> HumanMessage(i, 1)
    [] kind = "system"  -> [SystemMessage(<<>>, 1) EXCEPT !.id = i]
    [] kind = "ai"      -> AIMessage(i, 1, 0)
    [] kind = "aiCalls" -> AIMessage(i, 1, 1)
    [] kind = "tool"    -> ToolMessage(i, 1, FALSE)

\* Every message list of at most MaxLen messages.
MessageLists ==
  UNION {{[i \in 1..n |-> MessageOf(f[i], i)] : f \in [1..n -> Kinds]} :
           n \in 0..MaxLen}

\* The graph of part_001:453-692 is at its generate node, the state holding
\* any message list.
PromptInit ==
  /\ variant = "C"
  /\ pc = "running"
  /\ built = {"graph"}
  /\ inv = 1
  /\ node = "generate"
  /\ messages \in MessageLists
  /\ nextId = Len(messages) + 1
  /\ args = <<>>
  /\ Unstarted

PromptNext == generate

PromptSpec == PromptInit /\ [][PromptNext]_vars

\* ================================================================ claims

Last(s) == s[Len(s)]

IsPrefix(s, t) == Len(s) <= Len(t) /\ SubSeq(t, 1, Len(s)) = s

Count(s, x) == Cardinality({i \in DOMAIN s : s[i] = x})

\* The graphs built with graphBuilder (queryOrRespond, tools, generate).
ToolGraphs == {"graph", "graphWithMemory"}

\* Node n has run to completion in the running invocation.
Completed(n) ==
  /\ \E i \in DOMAIN ran : ran[i] = n
  /\ ~(failed = n /\ Last(ran) = n)

\* The response queryOrRespond appended in the running invocation, if any:
\* the first AI message of this invocation.
OwnAI == SelectSeq(messages, LAMBDA m : m.type = "ai" /\ m.inv = inv)

\* C1: in the explicit tool-calling graph the node changes only along
\* __start__ -> queryOrRespond, queryOrRespond -> tools (the response carries a
\* tool call), queryOrRespond -> __end__ (it carries none), tools -> generate,
\* generate -> __end__; and every step that completes follows one of them.
C1_Transitions ==
  [][(pc = "running" /\ inv' = inv /\ CurrentGraph \in ToolGraphs
      /\ (node' # node \/ (ran' # ran /\ pc' = "running")))
     => \/ node = "__start__" /\ node' = "queryOrRespond"
        \/ /\ node = "queryOrRespond" /\ node' = "tools"
           /\ Last(messages').type = "ai" /\ Last(messages').tool_calls > 0
        \/ /\ node = "queryOrRespond" /\ node' = "__end__"
           /\ Last(messages').type = "ai" /\ Last(messages').tool_calls = 0
        \/ node = "tools" /\ node' = "generate"
        \/ node = "generate" /\ node' = "__end__"]_vars

\* C1 witness: the graph without checkpointer ended through tools and generate.
C1_Witness ==
  /\ variant = "C"
  /\ node = "__end__"
  /\ ran = <<"queryOrRespond", "tools", "generate">>

\* C2: in every invocation of the explicit tool-calling graph the nodes started
\* so far are a prefix of queryOrRespond, tools, generate; when the response of
\* queryOrRespond carries no tool call neither tools nor generate ever starts
\* and the invocation ends after queryOrRespond; when it carries one, the
\* invocation ends after exactly one tools step followed by one generate step.
C2_OneRoundTrip ==
  (CurrentGraph \in ToolGraphs /\ pc \in {"running", "crashed", "ready", "done"})
  => /\ IsPrefix(ran, <<"queryOrRespond", "tools", "generate">>)
     /\ (OwnAI # <<>> /\ Head(OwnAI).tool_calls = 0)
          => (ran = <<"queryOrRespond">> /\ node = "__end__")
     /\ (node = "__end__" /\ OwnAI # <<>> /\ Head(OwnAI).tool_calls > 0)
          => ran = <<"queryOrRespond", "tools", "generate">>
     /\ node = "__end__" => OwnAI # <<>>

\* C2 witness: the second invocation on the thread ended after a tool round
\* trip, the first one having ended without.
C2_Witness ==
  /\ variant = "D"
  /\ inv = 2
  /\ node = "__end__"
  /\ ran = <<"queryOrRespond", "tools", "generate">>
  /\ \A i \in DOMAIN messages : messages[i].inv = 1 => messages[i].type # "tool"

\* The graphs whose nodes and edges main() wires itself.
ExplicitGraphs == {"graphQA", "graph", "graphWithMemory"}

\* C3: an invocation of an explicit graph is a single pass: no node is started
\* twice in one invocation, and every invocation that starts reaches __end__
\* unless one of its external calls throws.
C3_SinglePass ==
  /\ [](CurrentGraph \in ExplicitGraphs
        => \A i, j \in DOMAIN ran : i # j => ran[i] # ran[j])
  /\ \A k \in 1..2 :
       (inv = k /\ node = "__start__" /\ CurrentGraph \in ExplicitGraphs)
         ~> ((inv = k /\ node = "__end__") \/ failed # "none")

\* C3 witness: a query-analysis invocation ended with each node run once.
C3_Witness ==
  /\ CurrentGraph = "graphQA"
  /\ node = "__end__"
  /\ failed = "none"
  /\ ran = <<"analyzeQuery", "retrieveQA", "generateQA">>

\* C4: in the program with the checkpointer, every message list handed to the
\* model during the second invocation on the thread (by queryOrRespond and by
\* generate) holds the first invocation's human question, then its final AI
\* answer (its AI message without tool calls), then the new human message.
C4_SecondSeesFirst ==
  (variant = "D" /\ inv = 2)
  => \A p \in DOMAIN prompts :
       LET ms == prompts[p].msgs
       IN \E i, j, k \in DOMAIN ms :
            /\ i < j /\ j < k
            /\ ms[i].type = "human" /\ ms[i].inv = 1
            /\ ms[j].type = "ai" /\ ms[j].inv = 1 /\ ms[j].tool_calls = 0
            /\ ms[k].type = "human" /\ ms[k].inv = 2

\* C4 witness: both model calls of the second invocation were made, the first
\* invocation having gone through tools.
C4_Witness ==
  /\ variant = "D"
  /\ inv = 2
  /\ Len(prompts) = 2
  /\ prompts[2].node = "generate"
  /\ \E i \in DOMAIN messages : messages[i].inv = 1 /\ messages[i].type = "tool"

\* C5: an invocation of a graph without checkpointer (the react agent run after
\* the two threaded runs, the graph of the program without memory) holds only
\* messages of its own, in its state and in every message list it hands to the
\* model; and nothing is ever persisted under a thread id other than the one
\* main() uses, so a fresh thread id would load nothing.
C5_NoForeignHistory ==
  /\ CurrentGraph \in {"graph", "agent"}
     => /\ \A i \in DOMAIN messages : messages[i].inv = inv
        /\ \A p \in DOMAIN prompts :
             \A i \in DOMAIN prompts[p].msgs : prompts[p].msgs[i].inv = inv
        /\ messages # <<>> /\ messages[1].type = "human"
  /\ \A t \in ThreadIds \ {thread_id} : checkpoint[t] = <<>>

\* C5 witness: the agent has called the model twice while the thread holds the
\* messages of the two earlier runs.
C5_Witness ==
  /\ CurrentGraph = "agent"
  /\ Len(prompts) = 2
  /\ Len(checkpoint[thread_id]) >= 4

\* C6: the history persisted for a thread only grows by appending: each step
\* leaves the previous history as a prefix of the new one; the state of an
\* invocation on the thread extends what was persisted and is what is persisted
\* next; and inside any invocation a node only appends to the message list.
C6_AppendOnly ==
  [][/\ \A t \in ThreadIds : IsPrefix(checkpoint[t], checkpoint'[t])
     /\ HasCheckpointer(CurrentGraph')
        => /\ IsPrefix(checkpoint[thread_id], messages')
           /\ pc' # "crashed" => checkpoint'[thread_id] = messages'
     /\ (inv' = inv /\ CurrentGraph \in MessageGraphs)
        => IsPrefix(messages, messages')]_vars

\* C6 witness: the thread holds two finished invocations, the first with two
\* tool results.
C6_Witness ==
  /\ variant = "D"
  /\ inv = 2
  /\ node = "__end__"
  /\ Len(checkpoint[thread_id]) >= 7

\* C7: once the chunks are labelled, with N chunks and t = N div 3: chunks
\* 1..t (in list order) are "beginning", chunks t+1..2t are "middle", all the
\* others are "end"; so t chunks are "beginning", t are "middle", N - 2t are
\* "end", every chunk has one of the three labels, the labels never decrease
\* along the list, and with N < 3 every chunk is "end". The store holds the
\* chunks with these labels.
C7_Sections ==
  pc \notin {"load", "split", "label"}
  => LET N == Len(allSplits)
         t == N \div 3
         At(s) == {i \in 1..N : allSplits[i].section = s}
         Rank(s) == CASE s = "beginning" -> 1 [] s = "middle" -> 2
                      [] s = "end" -> 3 [] OTHER -> 0
     IN /\ \A i \in 1..N : allSplits[i].section \in Sections
        /\ At("beginning") = 1..t
        /\ At("middle") = (t + 1)..(2 * t)
        /\ At("end") = (2 * t + 1)..N
        /\ Cardinality(At("beginning")) = t
        /\ Cardinality(At("middle")) = t
        /\ Cardinality(At("end")) = N - 2 * t
        /\ \A i, j \in 1..N :
             i < j => Rank(allSplits[i].section) <= Rank(allSplits[j].section)
        /\ N < 3 => At("end") = 1..N
        /\ index \in {<<>>, allSplits}

\* C7 witness: five chunks have been labelled (one, one, three).
C7_Witness ==
  /\ pc = "add"
  /\ Len(allSplits) = 5
  /\ allSplits[3].section = "end"

\* The stored chunks of the section the SearchSpec asks for.
Matching == {i \in DOMAIN index : index[i].section = state.search.section}

\* C8 as claimed: in every query-analysis workflow, once retrieve has
\* completed, every chunk of the context has the section of the SearchSpec;
\* and when no stored chunk has that section retrieve can complete, its result
\* is empty and the workflow has gone on to generate.
C8_Original ==
  CurrentGraph = "graphQA"
  => /\ Completed("retrieveQA")
        => /\ \A i \in DOMAIN state.context :
                state.context[i].section = state.search.section
           /\ Matching = {}
              => state.context = <<>> /\ node \in {"generateQA", "__end__"}
     /\ (pc = "running" /\ node = "retrieveQA" /\ Matching = {})
        => ENABLED (retrieveQA /\ pc' = "running")

\* C8 amended: the same, in the workflows whose retrieve passes the section
\* filter to the similarity search (pipeline.ts, part_001:398-409); the context
\* then holds min(2, number of matching chunks) chunks.
C8_FilteredRetrieve ==
  (CurrentGraph = "graphQA" /\ variant = "B")
  => /\ Completed("retrieveQA")
        => /\ \A i \in DOMAIN state.context :
                state.context[i].section = state.search.section
           /\ Len(state.context) = Min(TopK, Cardinality(Matching))
           /\ Matching = {}
              => state.context = <<>> /\ node \in {"generateQA", "__end__"}
     /\ (pc = "running" /\ node = "retrieveQA" /\ Matching = {})
        => ENABLED (retrieveQA /\ pc' = "running")

\* C8 witness: the filtered retrieve found no chunk of the requested section in
\* a non-empty store, and the workflow ended after generate.
C8_Witness ==
  /\ variant = "B"
  /\ node = "__end__"
  /\ index # <<>>
  /\ Matching = {}
  /\ state.context = <<>>
  /\ state.answer = "answer"

\* A call of the retrieve tool failed in the tools step of the running
\* invocation.
ToolFailure ==
  \E i \in DOMAIN messages :
    /\ messages[i].type = "tool"
    /\ messages[i].status = "error"
    /\ messages[i].inv = inv

\* The running invocation has produced an answer.
Answered ==
  \/ state.answer # ""
  \/ /\ CurrentGraph \in MessageGraphs
     /\ messages # <<>>
     /\ Last(messages).type = "ai"
     /\ Last(messages).inv = inv
     /\ Last(messages).tool_calls = 0

\* An external call of a node threw.
NodeFailure == failed \notin {"none", "load", "addDocuments"}

\* The invocation stopped at the step that failed: that step is the last one
\* started, nothing runs after it and there is no answer.
AbortedAt(n) ==
  /\ pc = "crashed"
  /\ node = n
  /\ ran # <<>> /\ Last(ran) = n
  /\ CurrentGraph \in ExplicitGraphs => Count(ran, n) = 1
  /\ ~Answered
  /\ ~ENABLED Next

C10_IngestFirst ==
  /\ (built # {} \/ inv > 0 \/ ran # <<>> \/ node # "none")
     => /\ failed \notin {"load", "addDocuments"}
        /\ index = allSplits
        /\ \A i \in DOMAIN index : index[i].section \in Sections
        /\ built # {}
  /\ failed \in {"load", "addDocuments"}
     => /\ pc = "crashed"
        /\ index = <<>>
        /\ built = {}
        /\ inv = 0 /\ ran = <<>> /\ node = "none"
        /\ ~ENABLED Next
  /\ failed = "load" => allSplits = <<>>

\* C10 witness: the fetch failed.
C10_Witness ==
  /\ failed = "load"
  /\ pc = "crashed"

\* C11: in the command-line program, when no argument is supplied the usage
\* text is on the error stream, the process has exited with a non-zero status,
\* and nothing else has happened or can happen: no client was constructed, no
\* getter was called, the document was not fetched, no graph was built and no
\* agent step ran. When an argument is supplied nothing is written to the
\* error stream, the process does not exit that way, and the first argument is
\* the text of the human message that opens the agent's state and every message
\* list handed to the model.
C11_UsageExit ==
  /\ (args = <<>> /\ pc # "args")
     => /\ pc = "exited"
        /\ stderr = Usage
        /\ exitCode # <<>> /\ exitCode[1] # 0
        /\ constructed = <<>> /\ returned = <<>>
        /\ _llm = undefined /\ _embeddings = undefined /\ _vectorStore = undefined
        /\ failed = "none" /\ allSplits = <<>> /\ index = <<>>
        /\ built = {} /\ inv = 0 /\ node = "none"
        /\ ran = <<>> /\ prompts = <<>> /\ messages = <<>>
        /\ ~ENABLED CliNext
  /\ args # <<>>
     => /\ stderr = <<>> /\ exitCode = <<>> /\ pc # "exited"
        /\ inv > 0
           => /\ messages # <<>>
              /\ messages[1].type = "human"
              /\ messages[1].content = <<args[1]>>
              /\ \A i \in DOMAIN messages : i > 1 => messages[i].type # "human"
        /\ \A p \in DOMAIN prompts :
             /\ prompts[p].msgs # <<>>
             /\ prompts[p].msgs[1].type = "human"
             /\ prompts[p].msgs[1].content = <<args[1]>>

\* C11 witness: started without argument, the program has printed the usage
\* text and exited.
C11_Witness ==
  /\ variant = "CLI"
  /\ args = <<>>
  /\ pc = "exited"
  /\ stderr = Usage
  /\ exitCode = <<1>>

\* The steps of the running invocation that ran to completion, in order: the
\* steps started, without the one whose external call threw.
CompletedSteps ==
  IF pc = "crashed" /\ ran # <<>> THEN SubSeq(ran, 1, Len(ran) - 1) ELSE ran

\* The step names of the items yielded so far.
YieldedNodes == [i \in DOMAIN yielded |-> yielded[i].node]

\* The order of the nodes along the edges of the explicit graphs.
StaticOrder(g) ==
  IF g = "graphQA" THEN <<"analyzeQuery", "retrieveQA", "generateQA">>
  ELSE <<"queryOrRespond", "tools", "generate">>

\* C12 as claimed: in every program and with both stream modes, the items the
\* stream has yielded are exactly one per completed step, in completion
\* order, which in the explicit graphs is the order of the graph's edges.
C12_Original ==
  inv > 0
  => /\ YieldedNodes = CompletedSteps
     /\ CurrentGraph \in ExplicitGraphs
        => IsPrefix(CompletedSteps, StaticOrder(CurrentGraph))

\* C12 amended: with stream mode "updates" (the query-analysis graph) the
\* stream has yielded exactly one item per completed step; with "values" (the
\* tool-calling graphs and the react agent) it has yielded one item for the
\* state that holds the input (its last message is the new human message),
\* before any step, and then exactly one item per completed step, each
\* showing a later last message than the one before. In
\* both modes the items of the steps come in completion order, which in the
\* explicit graphs is the order of the graph's edges; a step whose external
\* call threw yields nothing.
C12_OneItemPerStep ==
  inv > 0
  => /\ CurrentGraph = "graphQA" => YieldedNodes = CompletedSteps
     /\ CurrentGraph \in MessageGraphs
        => /\ YieldedNodes = <<"__input__">> \o CompletedSteps
           /\ \E i \in DOMAIN messages :
                /\ messages[i].id = yielded[1].last
                /\ messages[i].type = "human"
                /\ messages[i].inv = inv
           /\ \A i, j \in DOMAIN yielded :
                i < j => yielded[i].last < yielded[j].last
           /\ yielded[Len(yielded)].last = messages[Len(messages)].id
     /\ CurrentGraph \in ExplicitGraphs
        => IsPrefix(CompletedSteps, StaticOrder(CurrentGraph))

\* C12 witness: the second invocation on the thread has ended after three
\* steps and its stream has yielded four items.
C12_Witness ==
  /\ variant = "D"
  /\ inv = 2
  /\ node = "__end__"
  /\ Len(CompletedSteps) = 3
  /\ Len(yielded) = 4

\* The positions of the AI messages of the running invocation, and of those
\* among them that carry no tool call.
OwnResponses ==
  {i \in DOMAIN messages : messages[i].type = "ai" /\ messages[i].inv = inv}

OwnFinal == {i \in OwnResponses : messages[i].tool_calls = 0}

GenerateInput == SubSeq(messages, 1, Len(messages) - 1)

\* The position at which the maximal suffix of tool messages of a list begins:
\* every message from there on is a tool message and the one before is not
\* (Len + 1 when the list does not end with a tool message).
SuffixStart(msgs) ==
  CHOOSE j \in 1..(Len(msgs) + 1) :
    /\ \A i \in j..Len(msgs) : msgs[i].type = "tool"
    /\ j > 1 => msgs[j - 1].type # "tool"

\* C14: for every message list, the system message generate puts first in its
\* prompt carries the texts of exactly the tool messages of the maximal suffix
\* of the list that consists of tool messages only, in list order; the text of
\* no earlier tool message is in it.
C14_TrailingToolMessages ==
  (node = "__end__" /\ prompts # <<>>)
  => LET input == GenerateInput
         j == SuffixStart(input)
         system == prompts[1].msgs[1]
     IN /\ system.type = "system"
        /\ system.content = [i \in 1..(Len(input) - j + 1) |-> input[j + i - 1].id]
        /\ \A i \in 1..(j - 1) :
             \A c \in DOMAIN system.content : system.content[c] # input[i].id

\* C14 witness: generate has answered on a list with a tool message, then a
\* human message, then two tool messages.
C14_Witness ==
  /\ node = "__end__"
  /\ Len(prompts) = 1
  /\ Len(GenerateInput) = 4
  /\ GenerateInput[1].type = "tool"
  /\ GenerateInput[2].type = "human"
  /\ GenerateInput[3].type = "tool"
  /\ GenerateInput[4].type = "tool"
  /\ prompts[1].msgs[1].content = <<3, 4>>

\* C15: for every message list, what follows the system message in generate's
\* prompt is the list restricted to its human messages, its system messages and
\* its AI messages without tool calls, in list order; no tool message and no AI
\* message with a tool call is in it.
C15_ConversationMessages ==
  (node = "__end__" /\ prompts # <<>>)
  => LET input == GenerateInput
         history == Tail(prompts[1].msgs)
         kept == {i \in DOMAIN input :
                    \/ input[i].type \in {"human", "system"}
                    \/ input[i].type = "ai" /\ input[i].tool_calls = 0}
     IN /\ Len(history) = Cardinality(kept)
        /\ \A i \in kept :
             history[Cardinality({l \in kept : l <= i})] = input[i]
        /\ \A h \in DOMAIN history :
             /\ history[h].type # "tool"
             /\ ~(history[h].type = "ai" /\ history[h].tool_calls > 0)

\* C15 witness: generate has answered on a list of a human message, an AI
\* message with a tool call, its tool result and an AI message without one.
C15_Witness ==
  /\ node = "__end__"
  /\ Len(prompts) = 1
  /\ Len(GenerateInput) = 4
  /\ GenerateInput[1].type = "human"
  /\ GenerateInput[2].type = "ai" /\ GenerateInput[2].tool_calls = 1
  /\ GenerateInput[3].type = "tool"
  /\ GenerateInput[4].type = "ai" /\ GenerateInput[4].tool_calls = 0
  /\ Len(prompts[1].msgs) = 3

\* The nodes of the query-analysis graph.
QANodes == {"analyzeQuery", "retrieveQA", "generateQA"}

\* Field f holds a value: the caller's input wrote it, or a completed step
\* did.
Written(f) ==
  \/ f = "question"
  \/ \E n \in QANodes : f \in Writes(n) /\ n \in {CompletedSteps[i] : i \in DOMAIN CompletedSteps}

\* C16: in the query-analysis graph search is written by analyzeQuery only,
\* context by retrieve only, answer by generate only and question by no step
\* (the caller's input sets it); a field no completed step has written still
\* has its initial value, search and answer hold a value once written; and
\* every step that has started, or is about to, reads only fields written
\* before it: analyzeQuery reads question, retrieve reads search, generate
\* reads question and context.
C16_Dataflow ==
  CurrentGraph = "graphQA"
  => /\ \A f \in Fields \ {"question"} :
          Cardinality({n \in QANodes : f \in Writes(n)}) = 1
     /\ "search" \in Writes("analyzeQuery")
     /\ "context" \in Writes("retrieveQA")
     /\ "answer" \in Writes("generateQA")
     /\ \A n \in QANodes : "question" \notin Writes(n)
     /\ state.question = "question"
     /\ \A f \in Fields : ~Written(f) => state[f] = EmptyState[f]
     /\ Written("search") => state.search.section \in Sections
     /\ Written("answer") => state.answer # ""
     /\ Reads("analyzeQuery") = {"question"}
     /\ Reads("retrieveQA") = {"search"}
     /\ Reads("generateQA") = {"question", "context"}
     /\ \A i \in DOMAIN ran :
          \A f \in Reads(ran[i]) :
            \/ f = "question"
            \/ \E j \in 1..(i - 1) : f \in Writes(ran[j])
     /\ (pc = "running" /\ node \in QANodes)
        => \A f \in Reads(node) : Written(f)

\* C16 witness: generate is about to run on the context retrieve wrote; the
\* answer is still unwritten.
C16_Witness ==
  /\ CurrentGraph = "graphQA"
  /\ pc = "running"
  /\ node = "generateQA"
  /\ ran = <<"analyzeQuery", "retrieveQA">>
  /\ Len(state.context) = 2
  /\ state.answer = ""

\* No step is under way: the state is the one a completed step (or the input)
\* left, and no external call of the invocation is in flight.
BetweenSteps == toolCalls = <<>>

\* C17 as claimed: at any time at most one external call of the running
\* invocation is in flight, also in a tools step for a message with several
\* tool calls, and no step is at work while a call of another step is in
\* flight.
C17_Original ==
  /\ Cardinality(InFlight) <= 1
  /\ ~BetweenSteps => pc = "running" /\ node = "tools"

\* C17 amended: the steps of an invocation run one after the other: calls are
\* in flight only while the tools step is at work, every other step starts
\* from a state in which no call is in flight, and the tools step has not
\* completed (the last message is still the AI message whose calls it serves)
\* while one of its calls is in flight. Inside the tools step the calls are not
\* serialized: there is one call per tool-call request of that message, at
\* least one and at most all of them are in flight, and all of them are in
\* flight together when the step has started them.
C17_StepsSequential ==
  /\ ~BetweenSteps
     => /\ pc = "running" /\ node = "tools"
        /\ Last(messages).type = "ai"
        /\ Len(toolCalls) = Last(messages).tool_calls
        /\ InFlight # {}
        /\ Cardinality(InFlight) <= Last(messages).tool_calls
        /\ Len(ran) = Len(CompletedSteps)
        /\ Len(yielded) = Len(CompletedSteps) + 1
  /\ (pc = "running" /\ node = "tools" /\ BetweenSteps)
     => ENABLED (toolsInvoke
                 /\ Cardinality(InFlight') = Last(messages).tool_calls)
  /\ node # "tools" => InFlight = {}

\* C17 witness: the tools step serves a message with two tool calls and both
\* similarity searches are in flight.
C17_Witness ==
  /\ pc = "running"
  /\ node = "tools"
  /\ Last(messages).tool_calls = 2
  /\ Cardinality(InFlight) = 2

\* C18: in the explicit tool-calling graph, with or without checkpointer and in
\* any invocation on the thread: whenever generate is about to run, the
\* messages that end the list are tool messages, at least one, all produced in
\* this invocation, exactly as many as the AI message right before them has
\* tool calls, and that AI message is the response queryOrRespond gave in this
\* invocation; whenever an invocation has reached __end__, the last message of
\* the history (the persisted one, with a checkpointer) is an AI message
\* without tool calls, and every AI message with tool calls in it is followed
\* by exactly its tool messages and then by an AI message.
C18_ToolResultsPaired ==
  CurrentGraph \in ToolGraphs
  => /\ (pc = "running" /\ node = "generate")
        => LET j == SuffixStart(messages)
               results == Len(messages) - j + 1
           IN /\ results >= 1
              /\ j > 1
              /\ messages[j - 1].type = "ai"
              /\ messages[j - 1].inv = inv
              /\ messages[j - 1].tool_calls = results
              /\ \A i \in j..Len(messages) : messages[i].inv = inv
              /\ Last(ran) = "tools"
     /\ node = "__end__"
        => /\ Last(messages).type = "ai"
           /\ Last(messages).tool_calls = 0
           /\ HasCheckpointer(CurrentGraph)
              => checkpoint[thread_id] = messages
           /\ \A i \in DOMAIN messages :
                (messages[i].type = "ai" /\ messages[i].tool_calls > 0)
                => LET k == messages[i].tool_calls
                   IN /\ Len(messages) > i + k
                      /\ \A l \in 1..k : messages[i + l].type = "tool"
                      /\ messages[i + k + 1].type = "ai"
                      /\ messages[i + k + 1].tool_calls = 0
           /\ \A i \in DOMAIN messages :
                messages[i].type = "tool"
                => \E a \in 1..(i - 1) :
                     /\ messages[a].type = "ai"
                     /\ a + messages[a].tool_calls >= i
                     /\ \A l \in (a + 1)..i : messages[l].type = "tool"

\* C18 witness: on the thread, the second invocation is about to run generate
\* on two tool results of its own, the first invocation having left one tool
\* result further up in the history.
C18_Witness ==
  /\ variant = "D"
  /\ inv = 2
  /\ pc = "running"
  /\ node = "generate"
  /\ Len(recentToolMessages(messages)) = 2
  /\ Cardinality({i \in DOMAIN messages :
                    messages[i].type = "tool" /\ messages[i].inv = 1}) = 1

\* The getters and the class of the client each one returns.
Getters == {"getLlm", "getEmbeddings", "getVectorStore"}

ClassOf(getter) ==
  CASE getter = "getLlm"         -> "ChatAnthropic"
    [] getter = "getEmbeddings"  -> "CohereEmbeddings"
    [] getter = "getVectorStore" -> "MemoryVectorStore"

\* The calls of a getter made so far, as positions in the history.
CallsOf(getter) == {i \in DOMAIN returned : returned[i].getter = getter}

\* C19: whatever getters a client has called and in whatever order, at most
\* one client of each class was constructed, and one exactly when its getter
\* was called; every call of a getter returned a client of the getter's class,
\* the same one as the getter's first call and the one the module holds; the
\* embeddings client was constructed before the vector store, by
\* getVectorStore only when no call of getEmbeddings came before it; and the
\* vector store is bound to the embeddings client getEmbeddings returns.
C19_Singletons ==
  /\ \A g \in Getters :
       /\ Cardinality({i \in DOMAIN constructed :
                         constructed[i].class = ClassOf(g)}) =
            (IF CallsOf(g) = {} THEN 0 ELSE 1)
       /\ \A i, j \in CallsOf(g) : returned[i].value = returned[j].value
       /\ \A i \in CallsOf(g) :
            /\ returned[i].value # undefined
            /\ returned[i].value.class = ClassOf(g)
            /\ returned[i].value \in {constructed[c] : c \in DOMAIN constructed}
  /\ \A i, j \in DOMAIN constructed : i # j => constructed[i].id # constructed[j].id
  /\ \A i \in CallsOf("getLlm") : returned[i].value = _llm
  /\ \A i \in CallsOf("getEmbeddings") : returned[i].value = _embeddings
  /\ \A i \in CallsOf("getVectorStore") : returned[i].value = _vectorStore
  /\ (CallsOf("getLlm") = {}) = (_llm = undefined)
  /\ (CallsOf("getEmbeddings") = {}) = (_embeddings = undefined)
  /\ (CallsOf("getVectorStore") = {}) = (_vectorStore = undefined)
  /\ _vectorStore # undefined
     => /\ _embeddings # undefined
        /\ _vectorStore.embeddings = _embeddings.id
        /\ _embeddings.id < _vectorStore.id
        /\ \A i \in CallsOf("getEmbeddings") :
             returned[i].value.id = _vectorStore.embeddings

\* C19 witness: getEmbeddings was called first, then getVectorStore, then both
\* again, and getLlm: one client of each class exists.
C19_Witness ==
  /\ variant = "models"
  /\ Len(returned) >= 5
  /\ returned[1].getter = "getEmbeddings"
  /\ returned[2].getter = "getVectorStore"
  /\ Cardinality(CallsOf("getEmbeddings")) >= 2
  /\ Cardinality(CallsOf("getVectorStore")) >= 2
  /\ Len(constructed) = 3

====
